---- MODULE Spec2Model ----
(***************************************************************************)
(* Job tracker of src/app.py: the PROGRESS registry, the per-job download  *)
(* worker thread with the engine's progress hook, and the /start,          *)
(* /progress and /fetch request handlers, each handler running on a thread *)
(* of its own.  Every read or write of one field of a job dict is one      *)
(* step; the threads interleave between steps.                             *)
(***************************************************************************)
EXTENDS Integers, Sequences, FiniteSets, TLC

\* ---------------------------------------------------------------- bounds
MaxJobs == 1        \* jobs /start creates (SpecWorker, SpecFetch, SpecProgress)
MaxSubmits == 2     \* jobs /start creates under SpecCollide; job dicts in all
MaxEvents == 2      \* progress events the engine emits per job
MaxBytes == 2       \* largest byte count an event reports
MaxFetchers == 2    \* request threads serving /fetch at the same time

\* ---------------------------------------------------------------- values
None == -1          \* Python None in a numeric field (speed, eta)
NoneS == "None"     \* Python None in a string field
NoObj == 0          \* PROGRESS.get() found nothing / tmpdir is None

Objs == 1..MaxSubmits          \* job dicts (and worker threads), in creation order
JobIds == 1..MaxSubmits        \* values uuid4().hex[:12] may take
Fetchers == 1..MaxFetchers
Modes == {NoneS, "best", "progressive", "audio", "other"}   \* the request's mode
Urls == {NoneS, "", " ", "u"}   \* the request's url: missing, empty, blank, given

\* A path: a file name inside a temp directory.  NoPath is Python None.
NoPath == [dir |-> NoObj, name |-> NoneS]

VARIABLES
  PROGRESS,   \* job_id -> job dict (NoObj: no such key)
  heap,       \* job dict -> its fields
  nsub,       \* job dicts created so far
  issued,     \* identifiers make_job has returned so far
  dirs,       \* temp directories that exist on disk (named by their job dict)
  content,    \* files in each temp directory
  wpc,        \* download_worker thread of each job dict: position
  wloc,       \* ... and its locals
  fpc,        \* /fetch handler threads: position
  floc,       \* ... and their locals
  teardowns,  \* times cleanup() ran rmtree + pop for each job dict
  ppc,        \* /progress handler thread: position (0: idle, i: about to read
              \* field i, 8: returns the snapshot, 9: returns "unknown job")
  ploc,       \* ... its locals: job_id, job, the fields read
  cands,      \* field sets the job had during the current /progress read that
              \* agree with the fields read so far
  sresp       \* the response /start gave last

vars == <<PROGRESS, heap, nsub, issued, dirs, content, wpc, wloc,
          fpc, floc, teardowns, ppc, ploc, cands, sresp>>

\* ------------------------------------------------------------- make_job
NewJob ==
  [status |-> "queued", percent |-> 0, speed |-> None, eta |-> None,
   msg |-> "Waiting...", tmpdir |-> NoObj, final_path |-> NoPath,
   filename |-> NoneS, error |-> NoneS]

NoEvent ==
  [st |-> NoneS, downloaded |-> 0, total |-> 0, speed |-> None, eta |-> None,
   tmpname |-> NoneS, filename |-> NoneS]

\* ydl_opts before build_opts has returned
NoOpts == [format |-> NoneS, postprocessors |-> {}, merge_output_format |-> NoneS]

NoLocals ==
  [job_id |-> 0, mode |-> NoneS, ff |-> FALSE, ydl_opts |-> NoOpts, nev |-> 0,
   job |-> NoObj, d |-> NoEvent, final_path |-> NoPath, e |-> NoneS]

NoFetch ==
  [job_id |-> 0, job |-> NoObj, final_path |-> NoPath, tmpdir |-> NoObj, code |-> 0]

NoPoll == [job_id |-> 0, job |-> NoObj, snap |-> <<>>]

Init ==
  /\ PROGRESS = [i \in JobIds |-> NoObj]
  /\ heap = [k \in Objs |-> NewJob]
  /\ nsub = 0
  /\ issued = {}
  /\ dirs = {}
  /\ content = [k \in Objs |-> {}]
  /\ wpc = [k \in Objs |-> "unborn"]
  /\ wloc = [k \in Objs |-> NoLocals]
  /\ fpc = [s \in Fetchers |-> "idle"]
  /\ floc = [s \in Fetchers |-> NoFetch]
  /\ teardowns = [k \in Objs |-> 0]
  /\ ppc = 0
  /\ ploc = NoPoll
  /\ cands = {}
  /\ sresp = [code |-> 0, job_id |-> 0, error |-> NoneS]

\* The fields /progress returns, in the order the handler reads them.
Proj(r) == <<r.status, r.percent, r.speed, r.eta, r.msg, r.error, r.filename>>

Agrees(c, snap) == \A i \in 1..Len(snap) : c[i] = snap[i]

\* A store into a job dict.  While a /progress read of that dict is under way,
\* the dict's new field set is one more instant the read may have observed.
SetHeap(h) ==
  /\ heap' = h
  /\ cands' = IF ppc > 0 /\ ploc.job # NoObj /\ h[ploc.job] # heap[ploc.job]
                 /\ Agrees(Proj(h[ploc.job]), ploc.snap)
              THEN cands \cup {Proj(h[ploc.job])}
              ELSE cands


\* ------------------------------------------------------------ utilities
\* str.strip() on the urls above
Strip(u) == IF u = " " THEN "" ELSE u

\* os.path.exists(path)
Exists(p) == p.dir \in dirs /\ p.name \in content[p.dir]

\* round(x, 2) of the rational n/d, in hundredths: to nearest, ties to even
Round2(n, d) ==
  LET q == (100 * n) \div d
      r == (100 * n) % d
  IN  IF 2 * r < d THEN q
      ELSE IF 2 * r > d THEN q + 1
      ELSE IF q % 2 = 0 THEN q ELSE q + 1

\* the hook's percent, in hundredths: (downloaded / total) * 100 if total else 0.0
Percent(d) == IF d.total # 0 THEN Round2(d.downloaded * 100, d.total) ELSE 0

\* the events the engine may hand to the hook: total is
\* d.get("total_bytes") or d.get("total_bytes_estimate"), downloaded is
\* d.get("downloaded_bytes") or 0; an exact total_bytes bounds downloaded_bytes,
\* an estimate does not
Events ==
  { [st |-> "downloading", downloaded |-> b[1],
     total |-> (IF b[2] # 0 THEN b[2] ELSE b[3]),
     speed |-> tel, eta |-> tel, tmpname |-> tn, filename |-> fn] :
      b \in { x \in (0..MaxBytes) \X (0..MaxBytes) \X (0..MaxBytes) :
                x[2] = 0 \/ x[1] <= x[2] },
      tel \in {None, 1}, tn \in {NoneS, "pred"}, fn \in {NoneS, "pred"} }
  \cup
  { [st |-> "finished", downloaded |-> 0, total |-> 0, speed |-> None,
     eta |-> None, tmpname |-> NoneS, filename |-> fn] : fn \in {NoneS, "pred"} }

\* the events that carry a status and nothing else
BareEvents ==
  { d \in Events : d.downloaded = 0 /\ d.total = 0 /\ d.speed = None
                    /\ d.tmpname = NoneS /\ d.filename = NoneS }

\* build_opts choosing the separate streams for best whatever ff is
build_opts_nofallback(mode, ff) ==
  IF mode = "audio" THEN
    IF ff THEN [format |-> "ba/best", postprocessors |-> {"FFmpegExtractAudio:mp3"},
                merge_output_format |-> "mp3"]
    ELSE [format |-> "ba/best", postprocessors |-> {}, merge_output_format |-> NoneS]
  ELSE IF mode = "progressive" THEN
    [format |-> "b[ext=mp4]/best", postprocessors |-> {}, merge_output_format |-> "mp4"]
  ELSE
    [format |-> "bv*+ba/best", postprocessors |-> {}, merge_output_format |-> "mp4"]

\* build_opts: the format selection for (mode, ffmpeg available)
build_opts(mode, ff) ==
  IF mode = "audio" THEN
    IF ff THEN [format |-> "ba/best", postprocessors |-> {"FFmpegExtractAudio:mp3"},
                merge_output_format |-> "mp3"]
    ELSE [format |-> "ba/best", postprocessors |-> {}, merge_output_format |-> NoneS]
  ELSE IF mode = "progressive" THEN
    [format |-> "b[ext=mp4]/best", postprocessors |-> {}, merge_output_format |-> "mp4"]
  ELSE IF ff THEN
    [format |-> "bv*+ba/best", postprocessors |-> {}, merge_output_format |-> "mp4"]
  ELSE
    [format |-> "b[ext=mp4]/best", postprocessors |-> {}, merge_output_format |-> "mp4"]

\* the hook's status on the engine's "finished" event
HookFinishedStatus(mode, ff) ==
  IF ff /\ mode \in {"best", "audio"} THEN "postprocessing" ELSE "finalizing"

\* os.path.basename(d.get("filename") or job.get("filename") or "")
HookFilename(d, job) ==
  IF d.filename # NoneS THEN d.filename
  ELSE IF job.filename \notin {NoneS, ""} THEN job.filename
  ELSE ""

\* resolve_final_path: the engine's predicted name if it exists, else the newest
\* file of the temp directory if there is one, else the predicted name
resolve_final_path(k) ==
  IF "pred" \in content[k] THEN [dir |-> k, name |-> "pred"]
  ELSE IF content[k] # {} THEN [dir |-> k, name |-> CHOOSE f \in content[k] : TRUE]
  ELSE [dir |-> k, name |-> "pred"]

\* ---------------------------------------------------------------- /start
\* start without the test of the url
start_nocheck(url, mode, uuid) ==
  /\ nsub < MaxSubmits
  /\ LET k == nsub + 1 IN
       /\ PROGRESS' = [PROGRESS EXCEPT ![uuid] = k]
       /\ SetHeap([heap EXCEPT ![k] = NewJob])
       /\ nsub' = k
       /\ issued' = issued \cup {uuid}
       /\ wpc' = [wpc EXCEPT ![k] = "w201"]
       /\ wloc' = [wloc EXCEPT ![k] =
                     [NoLocals EXCEPT !.job_id = uuid,
                                      !.mode = IF mode = NoneS THEN "best" ELSE mode]]
       /\ sresp' = [code |-> 200, job_id |-> uuid, error |-> NoneS]
  /\ UNCHANGED <<dirs, content, fpc, floc, teardowns, ppc, ploc>>

\* start(): url + mode from the request; a blank url is answered
\* {ok: False, error: "No URL"}, 400; else make_job(), the worker thread starts and
\* the answer is {ok: True, job_id}.  uuid is the value uuid4().hex[:12] takes.
start(url, mode, uuid) ==
  /\ nsub < MaxSubmits
  /\ IF Strip(IF url = NoneS THEN "" ELSE url) = ""
     THEN /\ sresp' = [code |-> 400, job_id |-> 0, error |-> "No URL"]
          /\ UNCHANGED <<PROGRESS, heap, cands, nsub, issued, wpc, wloc>>
     ELSE LET k == nsub + 1 IN
          /\ PROGRESS' = [PROGRESS EXCEPT ![uuid] = k]
          /\ SetHeap([heap EXCEPT ![k] = NewJob])
          /\ nsub' = k
          /\ issued' = issued \cup {uuid}
          /\ wpc' = [wpc EXCEPT ![k] = "w201"]
          /\ wloc' = [wloc EXCEPT ![k] =
                        [NoLocals EXCEPT !.job_id = uuid,
                                         !.mode = IF mode = NoneS THEN "best" ELSE mode]]
          /\ sresp' = [code |-> 200, job_id |-> uuid, error |-> NoneS]
  /\ UNCHANGED <<dirs, content, fpc, floc, teardowns, ppc, ploc>>

\* ------------------------------------------------------ download_worker
WorkerFrame == <<PROGRESS, nsub, issued, fpc, floc, teardowns, ppc, ploc, sresp>>

\* tmpdir = tempfile.mkdtemp(prefix="yt_"), before the try: an OSError ends the thread
worker_mkdtemp(k) ==
  /\ wpc[k] = "w201"
  /\ \/ /\ dirs' = dirs \cup {k}
        /\ wpc' = [wpc EXCEPT ![k] = "w202"]
     \/ /\ dirs' = dirs
        /\ wpc' = [wpc EXCEPT ![k] = "dead"]
  /\ UNCHANGED <<heap, cands, content, wloc>>
  /\ UNCHANGED WorkerFrame

\* PROGRESS[job_id][field] = value at position pc; a KeyError (job_id is no key)
\* moves the thread to onKeyError: to "except Exception as e" inside the try, out
\* of the thread elsewhere
WorkerStore(k, pc, field, value, next, onKeyError) ==
  /\ wpc[k] = pc
  /\ LET job == PROGRESS[wloc[k].job_id] IN
       IF job = NoObj
       THEN /\ wpc' = [wpc EXCEPT ![k] = onKeyError]
            /\ wloc' = IF onKeyError = "x223" THEN [wloc EXCEPT ![k].e = "KeyError"]
                       ELSE wloc
            /\ UNCHANGED <<heap, cands>>
       ELSE /\ wpc' = [wpc EXCEPT ![k] = next]
            /\ SetHeap([heap EXCEPT ![job][field] = value])
            /\ wloc' = wloc
  /\ UNCHANGED <<dirs, content>>
  /\ UNCHANGED WorkerFrame

worker_202(k) == WorkerStore(k, "w202", "tmpdir", k, "w203", "dead")
worker_203(k) == WorkerStore(k, "w203", "status", "starting", "w204", "dead")
worker_204(k) == WorkerStore(k, "w204", "msg", "Starting...", "w207", "dead")

\* ydl_opts = build_opts(...): ff = have_ffmpeg() is read from the environment
worker_build_opts(k) ==
  /\ wpc[k] = "w207"
  /\ \E ff \in BOOLEAN :
       wloc' = [wloc EXCEPT ![k].ff = ff,
                            ![k].ydl_opts = build_opts(wloc[k].mode, ff)]
  /\ wpc' = [wpc EXCEPT ![k] = "w209"]
  /\ UNCHANGED <<heap, cands, dirs, content>>
  /\ UNCHANGED WorkerFrame

\* ydl.extract_info(url, download=True) calls hook(d): job = PROGRESS.get(job_id);
\* if not job: return
engine_event(k, E) ==
  /\ wpc[k] = "w209"
  /\ wloc[k].nev < MaxEvents
  /\ \E d \in E :
       LET job == PROGRESS[wloc[k].job_id] IN
       IF job = NoObj
       THEN /\ wloc' = [wloc EXCEPT ![k].nev = @ + 1]
            /\ wpc' = wpc
       ELSE /\ wloc' = [wloc EXCEPT ![k].nev = @ + 1, ![k].job = job, ![k].d = d]
            /\ wpc' = [wpc EXCEPT ![k] = IF d.st = "downloading" THEN "h105" ELSE "h112"]
  /\ UNCHANGED <<heap, cands, dirs, content>>
  /\ UNCHANGED WorkerFrame

\* job[field] = value inside hook(d), on the dict PROGRESS.get returned
HookStore(k, pc, field, value, next) ==
  /\ wpc[k] = pc
  /\ SetHeap([heap EXCEPT ![wloc[k].job][field] = value])
  /\ wpc' = [wpc EXCEPT ![k] = next]
  /\ wloc' = IF next = "w209"
             THEN [wloc EXCEPT ![k].job = NoObj, ![k].d = NoEvent]
             ELSE wloc
  /\ UNCHANGED <<dirs, content>>
  /\ UNCHANGED WorkerFrame

hook_105(k) == HookStore(k, "h105", "status", "downloading", "h106")
hook_106(k) == HookStore(k, "h106", "percent", Percent(wloc[k].d), "h107")
hook_107(k) == HookStore(k, "h107", "speed", wloc[k].d.speed, "h108")
hook_108(k) == HookStore(k, "h108", "eta", wloc[k].d.eta, "h109")
hook_109(k) ==
  HookStore(k, "h109", "msg",
            IF wloc[k].d.tmpname # NoneS THEN wloc[k].d.tmpname ELSE "Downloading...",
            "h110")
hook_110(k) ==
  HookStore(k, "h110", "filename", HookFilename(wloc[k].d, heap[wloc[k].job]), "w209")
hook_112(k) ==
  HookStore(k, "h112", "status", HookFinishedStatus(wloc[k].mode, wloc[k].ff), "h114")
hook_114(k) == HookStore(k, "h114", "msg", "Merging / finalizing...", "h115")
hook_115(k) ==
  HookStore(k, "h115", "filename", HookFilename(wloc[k].d, heap[wloc[k].job]), "w209")

\* extract_info returns; final_path = resolve_final_path(tmpdir, ydl, info).
\* The engine leaves the predicted file, a file the postprocessor renamed, or
\* (a playlist without entries) nothing; os.listdir of a removed directory raises.
engine_return(k) ==
  /\ wpc[k] = "w209"
  /\ IF k \in dirs
     THEN /\ \E files \in {{}, {"pred"}, {"post"}} : content' = [content EXCEPT ![k] = files]
          /\ wloc' = [wloc EXCEPT ![k].final_path = resolve_final_path(k)']
          /\ wpc' = [wpc EXCEPT ![k] = "w211"]
     ELSE /\ wpc' = [wpc EXCEPT ![k] = "x223"]
          /\ wloc' = [wloc EXCEPT ![k].e = "FileNotFoundError"]
          /\ UNCHANGED content
  /\ UNCHANGED <<heap, cands, dirs>>
  /\ UNCHANGED WorkerFrame

\* extract_info raises DownloadError (except DownloadError as e) or anything
\* else (except Exception as e)
engine_raise(k) ==
  /\ wpc[k] = "w209"
  /\ \/ /\ wpc' = [wpc EXCEPT ![k] = "e218"]
        /\ wloc' = [wloc EXCEPT ![k].e = "DownloadError"]
     \/ /\ wpc' = [wpc EXCEPT ![k] = "x223"]
        /\ wloc' = [wloc EXCEPT ![k].e = "Exception"]
  /\ UNCHANGED <<heap, cands, dirs, content>>
  /\ UNCHANGED WorkerFrame

\* worker_211 storing no path
worker_211_nopath(k) == WorkerStore(k, "w211", "final_path", NoPath, "w212", "x223")

worker_211(k) == WorkerStore(k, "w211", "final_path", wloc[k].final_path, "w212", "x223")
worker_212(k) == WorkerStore(k, "w212", "filename", wloc[k].final_path.name, "w213", "x223")
worker_213(k) == WorkerStore(k, "w213", "status", "finished", "w214", "x223")
worker_214(k) == WorkerStore(k, "w214", "percent", 10000, "w215", "x223")
worker_215(k) == WorkerStore(k, "w215", "msg", "Ready to download", "done", "x223")

\* worker_218 without the store of the status
worker_218_nostatus(k) == WorkerStore(k, "e218", "msg", "Download error", "e219", "dead")

\* except DownloadError as e
worker_218(k) == WorkerStore(k, "e218", "status", "error", "e219", "dead")
worker_219(k) == WorkerStore(k, "e219", "error", wloc[k].e, "e220", "dead")
worker_220(k) == WorkerStore(k, "e220", "msg", "Download error", "done", "dead")

\* except Exception as e
worker_223(k) == WorkerStore(k, "x223", "status", "error", "x224", "dead")
worker_224(k) == WorkerStore(k, "x224", "error", wloc[k].e, "x225", "dead")
worker_225(k) == WorkerStore(k, "x225", "msg", "Unexpected error", "done", "dead")

\* one step of the thread download_worker(url, mode, job_id) of job dict k, the
\* engine drawing its events from E
download_worker(k, E) ==
  \/ worker_mkdtemp(k) \/ worker_202(k) \/ worker_203(k) \/ worker_204(k)
  \/ worker_build_opts(k)
  \/ engine_event(k, E) \/ engine_return(k) \/ engine_raise(k)
  \/ hook_105(k) \/ hook_106(k) \/ hook_107(k) \/ hook_108(k) \/ hook_109(k)
  \/ hook_110(k) \/ hook_112(k) \/ hook_114(k) \/ hook_115(k)
  \/ worker_211(k) \/ worker_212(k) \/ worker_213(k) \/ worker_214(k)
  \/ worker_215(k)
  \/ worker_218(k) \/ worker_219(k) \/ worker_220(k)
  \/ worker_223(k) \/ worker_224(k) \/ worker_225(k)

\* ---------------------------------------------------------------- /fetch
FetchFrame == <<heap, cands, nsub, issued, wpc, wloc, ppc, ploc, sresp>>

\* job = PROGRESS.get(job_id); if not job: return "Unknown job", 404
fetch_get(s, job_id) ==
  /\ fpc[s] = "idle"
  /\ LET job == PROGRESS[job_id] IN
       /\ floc' = [floc EXCEPT ![s] = [NoFetch EXCEPT !.job_id = job_id, !.job = job]]
       /\ fpc' = [fpc EXCEPT ![s] = IF job = NoObj THEN "r404" ELSE "f286"]
  /\ UNCHANGED <<PROGRESS, dirs, content, teardowns>>
  /\ UNCHANGED FetchFrame

\* fetch_status without the test of the status
fetch_status_nocheck(s) ==
  /\ fpc[s] = "f286"
  /\ fpc' = [fpc EXCEPT ![s] = "f286b"]
  /\ UNCHANGED <<PROGRESS, dirs, content, teardowns, floc>>
  /\ UNCHANGED FetchFrame

\* if job["status"] != "finished" ...: return "Not ready", 409
fetch_status(s) ==
  /\ fpc[s] = "f286"
  /\ fpc' = [fpc EXCEPT ![s] =
               IF heap[floc[s].job].status # "finished" THEN "r409" ELSE "f286b"]
  /\ UNCHANGED <<PROGRESS, dirs, content, teardowns, floc>>
  /\ UNCHANGED FetchFrame

\* ... or not job["final_path"]: return "Not ready", 409
fetch_final_path(s) ==
  /\ fpc[s] = "f286b"
  /\ fpc' = [fpc EXCEPT ![s] =
               IF heap[floc[s].job].final_path = NoPath THEN "r409" ELSE "f289"]
  /\ UNCHANGED <<PROGRESS, dirs, content, teardowns, floc>>
  /\ UNCHANGED FetchFrame

\* final_path = job["final_path"]
fetch_289(s) ==
  /\ fpc[s] = "f289"
  /\ floc' = [floc EXCEPT ![s].final_path = heap[floc[s].job].final_path]
  /\ fpc' = [fpc EXCEPT ![s] = "f290"]
  /\ UNCHANGED <<PROGRESS, dirs, content, teardowns>>
  /\ UNCHANGED FetchFrame

\* tmpdir = job["tmpdir"]; cleanup is registered with after_this_request
fetch_290(s) ==
  /\ fpc[s] = "f290"
  /\ floc' = [floc EXCEPT ![s].tmpdir = heap[floc[s].job].tmpdir]
  /\ fpc' = [fpc EXCEPT ![s] = "f302"]
  /\ UNCHANGED <<PROGRESS, dirs, content, teardowns>>
  /\ UNCHANGED FetchFrame

\* return send_file(final_path, ...): opens the file and returns the response
\* (200); a missing file raises.  The framework turns the exception into a 500
\* response, on which cleanup still runs, or, when it propagates exceptions
\* (debug=True, line 308), re-raises it and cleanup never runs.
fetch_send_file(s) ==
  /\ fpc[s] = "f302"
  /\ IF Exists(floc[s].final_path)
     THEN /\ floc' = [floc EXCEPT ![s].code = 200]
          /\ fpc' = [fpc EXCEPT ![s] = "c296"]
     ELSE \/ /\ floc' = [floc EXCEPT ![s].code = 500]
             /\ fpc' = [fpc EXCEPT ![s] = "c296"]
          \/ /\ floc' = [floc EXCEPT ![s].code = 500]
             /\ fpc' = [fpc EXCEPT ![s] = "r500"]
  /\ UNCHANGED <<PROGRESS, dirs, content, teardowns>>
  /\ UNCHANGED FetchFrame

\* cleanup_rmtree removing the served file instead of the directory
cleanup_rmtree_fileonly(s) ==
  /\ fpc[s] = "c296"
  /\ dirs' = dirs
  /\ content' = [k \in Objs |-> IF k = floc[s].final_path.dir
                                THEN content[k] \ {floc[s].final_path.name}
                                ELSE content[k]]
  /\ fpc' = [fpc EXCEPT ![s] = "c299"]
  /\ UNCHANGED <<PROGRESS, teardowns, floc>>
  /\ UNCHANGED FetchFrame

\* cleanup: shutil.rmtree(tmpdir, ignore_errors=True)
cleanup_rmtree(s) ==
  /\ fpc[s] = "c296"
  /\ dirs' = dirs \ {floc[s].tmpdir}
  /\ content' = [k \in Objs |-> IF k = floc[s].tmpdir THEN {} ELSE content[k]]
  /\ fpc' = [fpc EXCEPT ![s] = "c299"]
  /\ UNCHANGED <<PROGRESS, teardowns, floc>>
  /\ UNCHANGED FetchFrame

\* cleanup: PROGRESS.pop(job_id, None); return resp.  The body of a 200 response
\* is sent after this.
cleanup_pop(s) ==
  /\ fpc[s] = "c299"
  /\ PROGRESS' = [PROGRESS EXCEPT ![floc[s].job_id] = NoObj]
  /\ teardowns' = [teardowns EXCEPT ![floc[s].job] = @ + 1]
  /\ fpc' = [fpc EXCEPT ![s] = IF floc[s].code = 200 THEN "body" ELSE "r500"]
  /\ UNCHANGED <<dirs, content, floc>>
  /\ UNCHANGED FetchFrame

\* the server sends the open file to the client: to the end, or until the
\* client goes away
fetch_body(s) ==
  /\ fpc[s] = "body"
  /\ \E r \in {"r200", "r200abort"} : fpc' = [fpc EXCEPT ![s] = r]
  /\ UNCHANGED <<PROGRESS, dirs, content, teardowns, floc>>
  /\ UNCHANGED FetchFrame

\* the request is over; the thread takes the next one
fetch_done(s) ==
  /\ fpc[s] \in {"r404", "r409", "r500", "r200", "r200abort"}
  /\ fpc' = [fpc EXCEPT ![s] = "idle"]
  /\ floc' = [floc EXCEPT ![s] = NoFetch]
  /\ UNCHANGED <<PROGRESS, dirs, content, teardowns>>
  /\ UNCHANGED FetchFrame

fetch(s) ==
  \/ \E job_id \in JobIds : fetch_get(s, job_id)
  \/ fetch_status(s) \/ fetch_final_path(s) \/ fetch_289(s) \/ fetch_290(s)
  \/ fetch_send_file(s) \/ cleanup_rmtree(s) \/ cleanup_pop(s) \/ fetch_body(s)
  \/ fetch_done(s)

\* ------------------------------------------------------------- /progress
ProgressFrame == <<PROGRESS, heap, nsub, issued, dirs, content, wpc, wloc,
                   fpc, floc, teardowns, sresp>>

\* job = PROGRESS.get(job_id); if not job: the answer is "unknown job", 404
ProgressUnknown(job_id) == PROGRESS[job_id] = NoObj

progress_get(job_id) ==
  /\ ppc = 0
  /\ LET job == PROGRESS[job_id] IN
       /\ ploc' = [job_id |-> job_id, job |-> job, snap |-> <<>>]
       /\ ppc' = IF ProgressUnknown(job_id) THEN 9 ELSE 1
       /\ cands' = IF ProgressUnknown(job_id) THEN {} ELSE {Proj(heap[job])}
  /\ UNCHANGED ProgressFrame

\* the next of job["status"], job["percent"], ..., job["filename"]
progress_read ==
  /\ ppc \in 1..7
  /\ LET v == Proj(heap[ploc.job])[ppc] IN
       /\ ploc' = [ploc EXCEPT !.snap = Append(@, v)]
       /\ cands' = {c \in cands : c[ppc] = v}
  /\ ppc' = ppc + 1
  /\ UNCHANGED ProgressFrame

\* the response is sent; the thread takes the next request
progress_done ==
  /\ ppc \in {8, 9}
  /\ ppc' = 0
  /\ ploc' = NoPoll
  /\ cands' = {}
  /\ UNCHANGED ProgressFrame

progress ==
  \/ \E job_id \in JobIds : progress_get(job_id)
  \/ progress_read
  \/ progress_done

\* -------------------------------------------------------- specifications
\* /start with a url and a mode of the request; uuid4 returns an identifier it
\* has not returned before
Submit ==
  \E url \in Urls, mode \in Modes, uuid \in JobIds \ issued :
    nsub < MaxJobs /\ start(url, mode, uuid)

\* One job and its worker thread, the engine reporting any event.
NextWorker ==
  \/ Submit
  \/ \E k \in Objs : download_worker(k, Events)

SpecWorker == Init /\ [][NextWorker]_vars

\* One job, its worker thread and the /fetch request threads.
NextFetch ==
  \/ Submit
  \/ \E k \in Objs : download_worker(k, BareEvents)
  \/ \E s \in Fetchers : fetch(s)

SpecFetch == Init /\ [][NextFetch]_vars

\* One job, its worker thread and the /progress request thread.
NextProgress ==
  \/ Submit
  \/ \E k \in Objs : download_worker(k, BareEvents)
  \/ progress

SpecProgress == Init /\ [][NextProgress]_vars

\* Several submissions of the default mode, uuid4().hex[:12] free to return any
\* value: make_job does not look the identifier up in PROGRESS.
NextCollide ==
  \/ \E url \in Urls, uuid \in JobIds : start(url, NoneS, uuid)
  \/ \E k \in Objs : download_worker(k, BareEvents)

SpecCollide == Init /\ [][NextCollide]_vars

\* Several submissions of any url and mode (uuid4 returning fresh identifiers),
\* and each worker thread up to its format selection.
NextSubmit ==
  \/ \E url \in Urls, mode \in Modes, uuid \in JobIds \ issued : start(url, mode, uuid)
  \/ \E k \in Objs :
       \/ worker_mkdtemp(k) \/ worker_202(k) \/ worker_203(k) \/ worker_204(k)
       \/ worker_build_opts(k)

SpecSubmit == Init /\ [][NextSubmit]_vars

\* ----------------------------------------------------------------- claims
Started == 1..nsub      \* the job dicts make_job has created

\* the lifecycle's phases in order; postprocessing and finalizing are one phase
Phase(st) ==
  CASE st = "queued" -> 0
    [] st = "starting" -> 1
    [] st = "downloading" -> 2
    [] st \in {"postprocessing", "finalizing"} -> 3
    [] st = "finished" -> 4
    [] OTHER -> 5

\* C1: whenever a job's status changes, it leaves neither finished nor error, and
\* it moves to error or to a later phase of queued -> starting -> downloading ->
\* {postprocessing | finalizing} -> finished, never back to an earlier one.
C1_StatusMonotone ==
  [][\A k \in Objs :
       heap'[k].status # heap[k].status =>
         /\ heap[k].status \notin {"finished", "error"}
         /\ \/ heap'[k].status = "error"
            \/ Phase(heap'[k].status) > Phase(heap[k].status)]_vars

\* C8: a worker thread that has ended, normally or by an exception that left
\* download_worker, has left its job in a terminal status, finished or error.
C8_EndsTerminal ==
  \A k \in Started :
    wpc[k] \in {"done", "dead"} => heap[k].status \in {"finished", "error"}

\* C10: every job's percent lies in [0,100]; right after the hook has stored the
\* percent of a "downloading" event, it is 100*downloaded/total to the nearest
\* hundredth when the total is known, and 0 when it is not.
C10_Percent ==
  \A k \in Started :
    /\ heap[k].percent >= 0 /\ heap[k].percent <= 10000
    /\ wpc[k] = "h107" =>
         LET d == wloc[k].d
             p == heap[wloc[k].job].percent
         IN  IF d.total = 0 THEN p = 0
             ELSE /\ 2 * (p * d.total - 10000 * d.downloaded) <= d.total
                  /\ 2 * (10000 * d.downloaded - p * d.total) <= d.total
\* positions of a /fetch thread past both tests of line 286
Serving == {"f289", "f290", "f302", "c296", "c299", "body", "r200", "r200abort", "r500"}

\* C2: the first fetch of a finished job returns the file (it does not end in a
\* server error), and once a fetch has torn a job down its identifier is no key
\* of the registry, so a fetch that starts then gets 404.
C2_FirstFetchThenGone ==
  /\ \A s \in Fetchers :
       (floc[s].code = 500 /\ teardowns[floc[s].job] = 0)
         => \E t \in Fetchers \ {s} : floc[t].job = floc[s].job /\ fpc[t] \in Serving
  /\ \A k \in Started : teardowns[k] >= 1 => PROGRESS[wloc[k].job_id] = NoObj

\* C3: a fetch that reads a status other than finished answers 409 and changes
\* neither the registry, nor a job dict, nor the disk; and a fetch that is past
\* the tests (serving the file or tearing down) holds a job that is finished.
C3_NotReadyConflict ==
  [][\A s \in Fetchers :
       /\ (fpc[s] = "f286" /\ fpc'[s] # "f286"
             /\ heap[floc[s].job].status # "finished")
            => /\ fpc'[s] = "r409"
               /\ UNCHANGED <<PROGRESS, heap, dirs, content>>
       /\ fpc'[s] \in Serving \cup {"f286b"}
            => heap'[floc'[s].job].status = "finished"]_vars

C3_Witness ==
  \E s \in Fetchers :
    /\ fpc[s] = "r409"
    /\ floc[s].job # NoObj
    /\ heap[floc[s].job].status = "downloading"

C5_TeardownOnce ==
  /\ \A k \in Started : teardowns[k] <= 1
  /\ \A s \in Fetchers :
       fpc[s] \in {"r200", "r200abort"} => teardowns[floc[s].job] = 1

\* C7: after the engine raised DownloadError and the worker has ended, the job
\* has status error, msg "Download error" and an error text, it is still in the
\* registry, and from the raise on no fetch of it gets past the tests: each is
\* answered 409.
C7_DownloadError ==
  \A k \in Started :
    wloc[k].e = "DownloadError" =>
      /\ wpc[k] = "done" =>
           /\ heap[k].status = "error"
           /\ heap[k].msg = "Download error"
           /\ heap[k].error \notin {NoneS, ""}
      /\ PROGRESS[wloc[k].job_id] = k
      /\ teardowns[k] = 0
      /\ \A s \in Fetchers : floc[s].job = k => fpc[s] \in {"f286", "r409"}

C7_Witness ==
  \E k \in Started, s \in Fetchers :
    /\ wloc[k].e = "DownloadError" /\ wpc[k] = "done"
    /\ floc[s].job = k /\ fpc[s] = "r409"
\* C6: the snapshot /progress returns is the field set the job had at one
\* instant between the handler's lookup of the job and its last field read.
C6_SnapshotOfOneInstant ==
  ppc = 8 => cands # {}

\* C9: make_job returns an identifier that is no key of the registry: the job
\* dicts created so far (none is removed here) have identifiers of their own,
\* and each identifier still leads to its own job dict.
C9_FreshIdentifier ==
  /\ \A j, k \in Started : j # k => wloc[j].job_id # wloc[k].job_id
  /\ \A k \in Started : PROGRESS[wloc[k].job_id] = k

\* C11: a fetch of a finished job that finds its final_path missing on disk when
\* it comes to send the file answers 409 and changes neither the registry, nor a
\* job dict, nor the disk: no server error, no teardown.
C11_MissingFileConflict ==
  [][\A s \in Fetchers :
       (fpc[s] = "f302" /\ fpc'[s] # "f302" /\ ~Exists(floc[s].final_path))
         => /\ fpc'[s] = "r409"
            /\ UNCHANGED <<PROGRESS, heap, dirs, content>>]_vars

\* C12: a /start whose url is missing, empty or blank is answered 400 with error
\* "No URL" and no job identifier, and changes nothing else: no job dict, no key
\* of the registry, no worker thread, no directory.
C12_NoUrlRejected ==
  [][\A url \in Urls, mode \in Modes, uuid \in JobIds :
       (url \in {NoneS, "", " "} /\ start(url, mode, uuid))
         => /\ sresp' = [code |-> 400, job_id |-> 0, error |-> "No URL"]
            /\ UNCHANGED <<PROGRESS, heap, nsub, issued, wpc, wloc, dirs, content>>]_vars

\* a submission was rejected while one job was in the registry, and that job is
\* still the only one
C12_Witness ==
  /\ sresp = [code |-> 400, job_id |-> 0, error |-> "No URL"]
  /\ nsub = 1 /\ \E i \in JobIds : PROGRESS[i] = 1
  /\ \A k \in Objs \ {1} : wpc[k] = "unborn"

\* what a format selection asks of the engine
BestAudio(o) == o.format = "ba/best"                \* best audio stream
Combined(o) == o.format = "b[ext=mp4]/best"         \* one stream with video and audio
SeparateMerged(o) == o.format = "bv*+ba/best"       \* best video + best audio, merged
ExtractsMp3(o) == o.postprocessors = {"FFmpegExtractAudio:mp3"}

\* C13: the ydl_opts a worker holds once build_opts has returned follow the
\* decision table on (mode, transcoder available), every mode other than audio
\* and progressive counting as best: audio with the transcoder is best audio
\* with the mp3 extract-audio postprocessor, audio without it best audio with no
\* postprocessor, progressive the combined stream whatever the transcoder, best
\* with the transcoder the separate streams merged, best without it the combined
\* stream and never the separate streams.
C13_FormatTable ==
  \A k \in Started :
    wpc[k] \notin {"w201", "w202", "w203", "w204", "w207", "dead"} =>
      LET o == wloc[k].ydl_opts
          mode == wloc[k].mode
          ff == wloc[k].ff
      IN  /\ (mode = "audio" /\ ff) => (BestAudio(o) /\ ExtractsMp3(o))
          /\ (mode = "audio" /\ ~ff) => (BestAudio(o) /\ o.postprocessors = {})
          /\ mode = "progressive" => (Combined(o) /\ o.postprocessors = {})
          /\ (mode \notin {"audio", "progressive"} /\ ff)
               => (SeparateMerged(o) /\ o.postprocessors = {})
          /\ (mode \notin {"audio", "progressive"} /\ ~ff)
               => (Combined(o) /\ ~SeparateMerged(o) /\ o.postprocessors = {})

C13_Witness ==
  \E k \in Started :
    /\ wpc[k] = "w209" /\ wloc[k].mode = "other" /\ ~wloc[k].ff
    /\ Combined(wloc[k].ydl_opts)

\* C14: a store into a job that is no key of the registry any more is a no-op:
\* it does not bring the key back, and it raises nothing that leaves the worker,
\* so a worker whose job a fetch has torn down still comes to its end.
C14_WriteAfterRemovalNoOp ==
  \A k \in Started :
    teardowns[k] >= 1 =>
      /\ PROGRESS[wloc[k].job_id] = NoObj
      /\ wpc[k] # "dead"

\* C15: in every state, a job's final_path is set exactly when its status is
\* finished, the states between the worker's single stores included.
C15_FinalPathIffFinished ==
  \A k \in Started :
    heap[k].final_path # NoPath <=> heap[k].status = "finished"

\* C16: a key leaves the registry, or a directory the disk, only by the cleanup
\* of a fetch that has opened the file of a finished job for sending (200); and
\* the job of a worker that ended in error keeps its key and its directory.
C16_RemovedOnlyByServedFetch ==
  [][/\ ((\E i \in JobIds : PROGRESS[i] # NoObj /\ PROGRESS'[i] = NoObj)
           \/ dirs' # dirs \cup dirs')
          => \E s \in Fetchers :
               /\ fpc[s] \in {"c296", "c299"} /\ fpc'[s] # fpc[s]
               /\ floc[s].code = 200
               /\ heap[floc[s].job].status = "finished"
     /\ \A k \in Objs :
          (k \in 1..nsub' /\ heap'[k].status = "error" /\ wpc'[k] = "done")
            => (PROGRESS'[wloc'[k].job_id] = k /\ heap'[k].tmpdir \in dirs')]_vars

\* the engine request holds a merge step (separate streams) or a transcode step
\* (a postprocessor)
MergesOrTranscodes(o) == SeparateMerged(o) \/ o.postprocessors # {}

\* C17: right after the hook has stored the status of a "finished" event, the
\* status is postprocessing if the ydl_opts built for the job merge or
\* transcode, and finalizing if they do not.
C17_PostprocessingIffStep ==
  \A k \in Started :
    wpc[k] = "h114" =>
      heap[wloc[k].job].status =
        IF MergesOrTranscodes(wloc[k].ydl_opts) THEN "postprocessing" ELSE "finalizing"

\* C18: in every state, a job whose status is not downloading has neither a
\* speed nor an eta.
C18_TelemetryOnlyDownloading ==
  \A k \in Started :
    heap[k].status # "downloading" => (heap[k].speed = None /\ heap[k].eta = None)

\* C19: while a fetch is sending the body of the file, and until it has sent it
\* or lost the client, the job's workdir is on disk and its identifier a key of
\* the registry: the teardown comes after the transfer.
C19_TeardownAfterBody ==
  \A s \in Fetchers :
    fpc[s] = "body" =>
      /\ floc[s].tmpdir \in dirs
      /\ PROGRESS[floc[s].job_id] = floc[s].job

====
